---- MODULE Spec2Model ----
\* Reward / termination logic of gym_ai2thor/tasks.py: BaseTask, PickUpTask,
\* PickUpAndFindReceptacleTask and ExploreAllObjects.
\*
\* Encoding of Python values
\*   dict            a function whose domain is the set of keys
\*   list            a sequence
\*   None / a value  <<>> / <<v>>  (Some(v)); subscripting None raises TypeError
\*   float rewards   integers counting hundredths (0.01), so that the default
\*                   movement_reward -0.01 is -1 and the bonus 50 is 5000
\*   an exception    the field raised of a call's outcome names the exception
\*                   ("" when the call returned normally)
EXTENDS Integers, Sequences, FiniteSets, TLC

VARIABLES
    variant,      \* the task class that is instantiated
    kwargs,       \* the keyword arguments given to __init__
    pc,           \* "new" (before __init__), "ready" (instance exists), "failed" (__init__ raised)
    self,         \* the instance's attributes (a dict from attribute name to value)
    op,           \* the last operation: "new", "init", "evaluate", "return", "advance", "reset"
    call,         \* the last transition_reward call: its arguments and the attributes before it
    result,       \* the outcome of the last __init__ / transition_reward call
    fresh,        \* a second instance, built by __init__ at the last reset and fed the same calls
    freshResult,  \* the outcome of the last transition_reward call on fresh
    tracking,     \* TRUE once a reset started the second instance
    doneSeen,     \* a transition_reward call returned done = True since __init__ / the last reset
    lastInventory,\* the inventoryObjects of the last call that returned since __init__ / the last reset
    seenVisible,  \* names flagged visible in some snapshot since __init__ / the last reset
    grantCount    \* per name, how often its target_objects reward was part of a returned
                  \* reward since __init__ / the last reset (counted up to MaxGrants)

vars == <<variant, kwargs, pc, self, op, call, result, fresh, freshResult,
          tracking, doneSeen, lastInventory, seenVisible, grantCount>>

-----------------------------------------------------------------------------
\* Bounds of the model

\* the external stepping loop is followed up to this step_num
MaxStep == 3
\* longest state.metadata['objects'] list fed to ExploreAllObjects
MaxObjects == 2
\* grantCount stops counting here
MaxGrants == 2

-----------------------------------------------------------------------------
\* Python helpers

None == <<>>
Some(v) == <<v>>
EmptyDict == [k \in {} |-> 0]

\* d.get(k, default)
Get(d, k, default) == IF k \in DOMAIN d THEN d[k] ELSE default

\* truth value of an int-or-None
Truthy(m) == m # None /\ m[1] # 0

\* n expressed in hundredths
Hundredths(n) == n * 100

-----------------------------------------------------------------------------
\* Program constants

DefaultMaxEpisodeLength == 1000
\* -0.01, in hundredths
DefaultMovementReward == -1
\* the flat bonus of ExploreAllObjects, in units
CompletionBonus == 50

-----------------------------------------------------------------------------
\* Inputs

Variants == {"PickUpTask", "PickUpAndFindReceptacleTask", "ExploreAllObjects"}
PickUpVariants == {"PickUpTask", "PickUpAndFindReceptacleTask"}

ObjectTypes == {"Apple", "Mug"}
ReceptacleTypes == {"Fridge", "Cabinet"}
ObjectNames == {"Apple", "Mug"}

\* the top-level configuration keys read by BaseTask.__init__
BaseOptions ==
    { EmptyDict,
      ("max_episode_length" :> None) @@ ("movement_reward" :> 0),
      "max_episode_length" :> Some(0),
      ("max_episode_length" :> Some(2)) @@ ("movement_reward" :> 0) }

\* kwargs['task']
TaskOptions ==
    { EmptyDict,
      "target_objects" :> EmptyDict,
      "target_objects" :> ("Apple" :> Hundredths(5)),
      ("target_objects" :> (("Apple" :> Hundredths(5)) @@ ("Mug" :> Hundredths(3))))
        @@ ("target_receptacles" :> ("Fridge" :> Hundredths(7)))
        @@ ("target_receptacles_need_open" :> ("Fridge" :> Hundredths(2))) }

\* kwargs['pickup_objects']
PickupOptions == { {"Apple"}, {"Apple", "Mug"} }

KwargsOptions ==
    { b @@ ("task" :> t) @@ ("pickup_objects" :> p) :
        b \in BaseOptions, t \in TaskOptions, p \in PickupOptions }

\* an optional object descriptor of the metadata
OptionalReceptacles == {None} \cup { Some([objectType |-> t]) : t \in ReceptacleTypes }

\* inventoryObjects: the agent carries at most one object
Inventories == {<<>>} \cup { <<[objectType |-> t]>> : t \in ObjectTypes }

SceneObjects == [name : ObjectNames, visible : BOOLEAN]
ObjectLists == UNION { [1..n -> SceneObjects] : n \in 0..MaxObjects }

Actions == {"OpenObject", "CloseObject", "MoveAhead"}

\* state.metadata; a variant is fed only the fields it reads, the others are
\* held at None / the empty list
Metadata(inv, put, opened, closed, objs) ==
    [inventoryObjects |-> inv, lastObjectPutReceptacle |-> put,
     lastObjectOpened |-> opened, lastObjectClosed |-> closed, objects |-> objs]

NoCall ==
    [state |-> Metadata(<<>>, None, None, None, <<>>), action_str |-> "", pre |-> EmptyDict,
     prevInventory |-> <<>>, doneBefore |-> FALSE]
NoResult == [raised |-> "", reward |-> 0, done |-> FALSE]

-----------------------------------------------------------------------------
\* BaseTask

BaseTask_init(config) ==
    [max_episode_length |-> Get(config, "max_episode_length", Some(DefaultMaxEpisodeLength)),
     movement_reward |-> Get(config, "movement_reward", DefaultMovementReward),
     step_num |-> 0]

\* variants of the episode-length test: a strict comparison, an equality
EpisodeLengthReached_strict(s) ==
    Truthy(s.max_episode_length) /\ s.step_num > s.max_episode_length[1]

EpisodeLengthReached_equal(s) ==
    Truthy(s.max_episode_length) /\ s.step_num = s.max_episode_length[1]

\* self.max_episode_length and self.step_num >= self.max_episode_length
EpisodeLengthReached(s) ==
    Truthy(s.max_episode_length) /\ s.step_num >= s.max_episode_length[1]

-----------------------------------------------------------------------------
\* PickUpTask

\* variant of the validation: the membership test inverted
MissingObjects_inverted(kw) ==
    { obj \in DOMAIN kw.task.target_objects : obj \in kw.pickup_objects }

\* the keys of target_objects that are not pickupable
MissingObjects(kw) ==
    { obj \in DOMAIN kw.task.target_objects : obj \notin kw.pickup_objects }

PickUpTask_init(kw) ==
    LET base == BaseTask_init(kw) IN
    IF "target_objects" \notin DOMAIN kw.task
    THEN [raised |-> "KeyError", self |-> EmptyDict]
    ELSE IF MissingObjects(kw) # {}
    THEN [raised |-> "InvalidTaskParams", self |-> EmptyDict]
    ELSE [raised |-> "",
          self |-> base @@ ("target_objects" :> Get(kw.task, "target_objects", EmptyDict))
                        @@ ("prev_inventory" :> <<>>)]

\* variant of the pickup test: the previous inventory is not consulted
ObjectPickedUp_noEdge(s, curr_inventory) ==
    /\ curr_inventory # <<>>
    /\ curr_inventory[1].objectType \in DOMAIN s.target_objects

\* not self.prev_inventory and curr_inventory and curr_inventory[0]['objectType'] in target_objects
ObjectPickedUp(s, curr_inventory) ==
    /\ s.prev_inventory = <<>>
    /\ curr_inventory # <<>>
    /\ curr_inventory[1].objectType \in DOMAIN s.target_objects

PickUpTask_transition_reward(s, state, action_str) ==
    LET curr_inventory == state.inventoryObjects
        reward0 == s.movement_reward
        reward1 == IF ObjectPickedUp(s, curr_inventory)
                   THEN reward0 + Get(s.target_objects, curr_inventory[1].objectType, 0)
                   ELSE reward0
    IN  [raised |-> "", reward |-> reward1, done |-> EpisodeLengthReached(s),
         self |-> [s EXCEPT !.prev_inventory = state.inventoryObjects],
         granted |-> IF ObjectPickedUp(s, curr_inventory)
                     THEN <<curr_inventory[1].objectType>> ELSE <<>>]

\* variant of reset: prev_inventory is kept
PickUpTask_reset_stale(s) == [s EXCEPT !.step_num = 0]

PickUpTask_reset(s) == [s EXCEPT !.prev_inventory = <<>>, !.step_num = 0]

-----------------------------------------------------------------------------
\* PickUpAndFindReceptacleTask

PickUpAndFindReceptacleTask_init(kw) ==
    LET base == BaseTask_init(kw) IN
    IF "target_objects" \notin DOMAIN kw.task
    THEN [raised |-> "KeyError", self |-> EmptyDict]
    ELSE IF MissingObjects(kw) # {}
    THEN [raised |-> "InvalidTaskParams", self |-> EmptyDict]
    ELSE [raised |-> "",
          self |-> base @@ ("target_objects" :> Get(kw.task, "target_objects", EmptyDict))
                        @@ ("target_receptacles" :> Get(kw.task, "target_receptacles", EmptyDict))
                        @@ ("target_receptacles_need_open" :>
                                Get(kw.task, "target_receptacles_need_open", EmptyDict))
                        @@ ("prev_inventory" :> <<>>)]

\* self.prev_inventory and not curr_inventory and self.prev_inventory[0]['objectType'] in target_objects
ObjectPutDown(s, curr_inventory) ==
    /\ s.prev_inventory # <<>>
    /\ curr_inventory = <<>>
    /\ s.prev_inventory[1].objectType \in DOMAIN s.target_objects

\* the put-down branch: state.metadata["lastObjectPutReceptacle"]['objectType'] is
\* subscripted without a test for None
PutDownReward(s, state) ==
    IF ~ObjectPutDown(s, state.inventoryObjects)
    THEN [raised |-> "", amount |-> 0]
    ELSE IF state.lastObjectPutReceptacle = None
    THEN [raised |-> "TypeError", amount |-> 0]
    ELSE [raised |-> "",
          amount |-> Get(s.target_receptacles, state.lastObjectPutReceptacle[1].objectType, 0)]

\* the OpenObject branch
OpenReward(s, state, action_str) ==
    IF action_str = "OpenObject" /\ state.lastObjectOpened # None
    THEN Get(s.target_receptacles_need_open, state.lastObjectOpened[1].objectType, 0)
    ELSE 0

\* the CloseObject branch: tests lastObjectClosed, subscripts lastObjectOpened
CloseReward(s, state, action_str) ==
    IF ~(action_str = "CloseObject" /\ state.lastObjectClosed # None)
    THEN [raised |-> "", amount |-> 0]
    ELSE IF state.lastObjectOpened = None
    THEN [raised |-> "TypeError", amount |-> 0]
    ELSE [raised |-> "",
          amount |-> 0 - Get(s.target_receptacles_need_open,
                             state.lastObjectOpened[1].objectType, 0)]

PickUpAndFindReceptacleTask_transition_reward(s, state, action_str) ==
    LET curr_inventory == state.inventoryObjects
        reward0 == s.movement_reward
        reward1 == IF ObjectPickedUp(s, curr_inventory)
                   THEN reward0 + Get(s.target_objects, curr_inventory[1].objectType, 0)
                   ELSE reward0
        put == PutDownReward(s, state)
        reward2 == reward1 + put.amount
        reward3 == reward2 + OpenReward(s, state, action_str)
        close == CloseReward(s, state, action_str)
        reward4 == reward3 + close.amount
    IN  IF put.raised # ""
        THEN [raised |-> put.raised, reward |-> 0, done |-> FALSE, self |-> s, granted |-> <<>>]
        ELSE IF close.raised # ""
        THEN [raised |-> close.raised, reward |-> 0, done |-> FALSE, self |-> s, granted |-> <<>>]
        ELSE [raised |-> "", reward |-> reward4, done |-> EpisodeLengthReached(s),
              self |-> [s EXCEPT !.prev_inventory = state.inventoryObjects],
              granted |-> IF ObjectPickedUp(s, curr_inventory)
                          THEN <<curr_inventory[1].objectType>> ELSE <<>>]

PickUpAndFindReceptacleTask_reset(s) == [s EXCEPT !.prev_inventory = <<>>, !.step_num = 0]

-----------------------------------------------------------------------------
\* ExploreAllObjects

ExploreAllObjects_init(kw) ==
    [raised |-> "",
     self |-> BaseTask_init(kw) @@ ("target_objects" :> Get(kw.task, "target_objects", EmptyDict))
                                @@ ("discoverd" :> {})]

\* the for loop over state.metadata['objects']; acc carries self.discoverd, the
\* local reward and, in granted, the names whose reward was added, in order.
\* A failing assert leaves the loop with self.discoverd as mutated so far.
RECURSIVE ScanObjects(_, _, _)
ScanObjects(s, objects, acc) ==
    IF objects = <<>>
    THEN acc
    ELSE LET obj == Head(objects) IN
         IF obj.name \notin DOMAIN s.target_objects
         THEN [acc EXCEPT !.raised = "AssertionError"]
         ELSE IF obj.visible /\ obj.name \notin acc.discoverd
         THEN ScanObjects(s, Tail(objects),
                          [acc EXCEPT !.discoverd = @ \cup {obj.name},
                                      !.reward = @ + Get(s.target_objects, obj.name, 0),
                                      !.granted = Append(@, obj.name)])
         ELSE ScanObjects(s, Tail(objects), acc)

\* len(self.discoverd) == len(self.target_objects)
AllDiscovered(s, discoverd) == Cardinality(discoverd) = Cardinality(DOMAIN s.target_objects)

\* variant of the terminating branch: the bonus is added on either path
TerminalBonus_always(s) == Hundredths(CompletionBonus)

\* the amount added in the terminating branch: nothing when the episode length
\* is reached, the bonus otherwise
TerminalBonus(s) == IF EpisodeLengthReached(s) THEN 0 ELSE Hundredths(CompletionBonus)

ExploreAllObjects_transition_reward(s, state, action_str) ==
    LET scan == ScanObjects(s, state.objects,
                            [raised |-> "", discoverd |-> s.discoverd,
                             reward |-> s.movement_reward, granted |-> <<>>])
        s1 == [s EXCEPT !.discoverd = scan.discoverd]
        terminal == EpisodeLengthReached(s1) \/ AllDiscovered(s1, s1.discoverd)
    IN  IF scan.raised # ""
        THEN [raised |-> scan.raised, reward |-> 0, done |-> FALSE, self |-> s1,
              granted |-> <<>>]
        ELSE [raised |-> "",
              reward |-> IF terminal THEN scan.reward + TerminalBonus(s1) ELSE scan.reward,
              done |-> terminal, self |-> s1, granted |-> scan.granted]

ExploreAllObjects_reset(s) == [s EXCEPT !.discoverd = {}, !.step_num = 0]

-----------------------------------------------------------------------------
\* Dispatch on the class

Construct(v, kw) ==
    CASE v = "PickUpTask" -> PickUpTask_init(kw)
      [] v = "PickUpAndFindReceptacleTask" -> PickUpAndFindReceptacleTask_init(kw)
      [] v = "ExploreAllObjects" -> ExploreAllObjects_init(kw)

TransitionReward(v, s, state, action_str) ==
    CASE v = "PickUpTask" -> PickUpTask_transition_reward(s, state, action_str)
      [] v = "PickUpAndFindReceptacleTask" ->
             PickUpAndFindReceptacleTask_transition_reward(s, state, action_str)
      [] v = "ExploreAllObjects" -> ExploreAllObjects_transition_reward(s, state, action_str)

ResetTask(v, s) ==
    CASE v = "PickUpTask" -> PickUpTask_reset(s)
      [] v = "PickUpAndFindReceptacleTask" -> PickUpAndFindReceptacleTask_reset(s)
      [] v = "ExploreAllObjects" -> ExploreAllObjects_reset(s)

\* the names of a snapshot that are flagged visible
VisibleNames(objects) == { objects[i].name : i \in { j \in DOMAIN objects : objects[j].visible } }

Min(a, b) == IF a <= b THEN a ELSE b

\* occurrences of name in a sequence of names
Occurrences(names, name) == Cardinality({ i \in DOMAIN names : names[i] = name })

-----------------------------------------------------------------------------
\* State machine

Init ==
    /\ variant \in Variants
    /\ kwargs \in KwargsOptions
    /\ pc = "new"
    /\ self = EmptyDict
    /\ op = "new"
    /\ call = NoCall
    /\ result = NoResult
    /\ fresh = EmptyDict
    /\ freshResult = NoResult
    /\ tracking = FALSE
    /\ doneSeen = FALSE
    /\ lastInventory = <<>>
    /\ seenVisible = {}
    /\ grantCount = [n \in ObjectNames |-> 0]

\* task = TaskClass(**kwargs)
New ==
    /\ pc = "new"
    /\ LET r == Construct(variant, kwargs) IN
        /\ pc' = IF r.raised = "" THEN "ready" ELSE "failed"
        /\ self' = r.self
        /\ result' = [NoResult EXCEPT !.raised = r.raised]
    /\ op' = "init"
    /\ UNCHANGED <<variant, kwargs, call, fresh, freshResult, tracking, doneSeen,
                   lastInventory, seenVisible, grantCount>>

\* reward, done = task.transition_reward(state, action_str), on the instance
\* and on the second instance when there is one
Evaluate(state, action_str) ==
    /\ pc = "ready"
    /\ op # "evaluate"
    /\ LET r == TransitionReward(variant, self, state, action_str) IN
        /\ self' = r.self
        /\ result' = [raised |-> r.raised, reward |-> r.reward, done |-> r.done]
        /\ doneSeen' = (doneSeen \/ (r.raised = "" /\ r.done))
        /\ lastInventory' = IF r.raised = "" THEN state.inventoryObjects ELSE lastInventory
        /\ grantCount' = [n \in ObjectNames |->
                             Min(grantCount[n] + Occurrences(r.granted, n), MaxGrants)]
    /\ call' = [state |-> state, action_str |-> action_str, pre |-> self,
                prevInventory |-> lastInventory, doneBefore |-> doneSeen]
    /\ seenVisible' = seenVisible \cup VisibleNames(state.objects)
    /\ IF tracking
       THEN LET f == TransitionReward(variant, fresh, state, action_str) IN
            /\ fresh' = f.self
            /\ freshResult' = [raised |-> f.raised, reward |-> f.reward, done |-> f.done]
       ELSE UNCHANGED <<fresh, freshResult>>
    /\ op' = "evaluate"
    /\ UNCHANGED <<variant, kwargs, pc, tracking>>

EvaluatePickUp ==
    /\ variant = "PickUpTask"
    /\ \E inv \in Inventories :
          Evaluate(Metadata(inv, None, None, None, <<>>), "MoveAhead")

\* lastObjectPutReceptacle is read only with an empty inventory, lastObjectOpened
\* only after OpenObject or CloseObject, lastObjectClosed only after CloseObject:
\* a field is varied where the call can read it
EvaluateReceptacle ==
    /\ variant = "PickUpAndFindReceptacleTask"
    /\ \E inv \in Inventories, put \in OptionalReceptacles, opened \in OptionalReceptacles,
          closed \in OptionalReceptacles, a \in Actions :
          /\ inv # <<>> => put = None
          /\ a = "MoveAhead" => opened = None
          /\ a # "CloseObject" => closed = None
          /\ Evaluate(Metadata(inv, put, opened, closed, <<>>), a)

EvaluateExplore ==
    /\ variant = "ExploreAllObjects"
    /\ \E objs \in ObjectLists :
          Evaluate(Metadata(<<>>, None, None, None, objs), "MoveAhead")

\* the caller takes (reward, done), or the exception, of the call that was
\* made; the record of that call is dropped
Return ==
    /\ op = "evaluate"
    /\ op' = "return"
    /\ call' = NoCall
    /\ result' = NoResult
    /\ freshResult' = NoResult
    /\ UNCHANGED <<variant, kwargs, pc, self, fresh, tracking, doneSeen, lastInventory,
                   seenVisible, grantCount>>

\* the external stepping loop: task.step_num += 1 (on both instances)
Advance ==
    /\ pc = "ready"
    /\ op # "evaluate"
    /\ self.step_num < MaxStep
    /\ self' = [self EXCEPT !.step_num = @ + 1]
    /\ fresh' = IF tracking THEN [fresh EXCEPT !.step_num = @ + 1] ELSE fresh
    /\ op' = "advance"
    /\ call' = NoCall
    /\ result' = NoResult
    /\ freshResult' = NoResult
    /\ UNCHANGED <<variant, kwargs, pc, tracking, doneSeen, lastInventory, seenVisible,
                   grantCount>>

\* task.reset(); the second instance is built anew from the same kwargs
Reset ==
    /\ pc = "ready"
    /\ op # "evaluate"
    /\ self' = ResetTask(variant, self)
    /\ fresh' = Construct(variant, kwargs).self
    /\ tracking' = TRUE
    /\ op' = "reset"
    /\ call' = NoCall
    /\ result' = NoResult
    /\ freshResult' = NoResult
    /\ doneSeen' = FALSE
    /\ lastInventory' = <<>>
    /\ seenVisible' = {}
    /\ grantCount' = [n \in ObjectNames |-> 0]
    /\ UNCHANGED <<variant, kwargs, pc>>

Next ==
    \/ New
    \/ EvaluatePickUp
    \/ EvaluateReceptacle
    \/ EvaluateExplore
    \/ Return
    \/ Advance
    \/ Reset

Spec == Init /\ [][Next]_vars

-----------------------------------------------------------------------------
\* Properties

\* the last step was a transition_reward call that returned (reward, done)
Returned == op = "evaluate" /\ result.raised = ""

\* the sum of d[k] over the keys k in S
RECURSIVE SumOver(_, _)
SumOver(d, S) ==
    IF S = {} THEN 0
    ELSE LET k == CHOOSE x \in S : TRUE IN d[k] + SumOver(d, S \ {k})

\* the pickup edge of the last call, from the inventory of the call before it
PickupEdge ==
    /\ call.prevInventory = <<>>
    /\ call.state.inventoryObjects # <<>>
    /\ call.state.inventoryObjects[1].objectType \in DOMAIN self.target_objects

\* the put-down edge of the last call
PutDownEdge ==
    /\ call.prevInventory # <<>>
    /\ call.state.inventoryObjects = <<>>
    /\ call.prevInventory[1].objectType \in DOMAIN self.target_objects

\* max_episode_length is set and non-zero, and step_num has reached it
BudgetReached ==
    /\ self.max_episode_length # None
    /\ self.max_episode_length[1] # 0
    /\ self.step_num >= self.max_episode_length[1]

\* C1: PickUpTask: every call returns movement_reward plus the target reward of
\* the held object's type when the previous call's inventory (empty after
\* construction or reset) was empty, the current one is not and the held type
\* is a target; movement_reward in every other case; every such edge earns the
\* reward again.
C1_PickUpReward ==
    (variant = "PickUpTask" /\ op = "evaluate") =>
        /\ result.raised = ""
        /\ result.reward =
             IF PickupEdge
             THEN self.movement_reward
                    + self.target_objects[call.state.inventoryObjects[1].objectType]
             ELSE self.movement_reward

\* C1 witness: a second rewarded pickup of the same target in one episode
C1_Witness ==
    /\ variant = "PickUpTask" /\ Returned /\ PickupEdge
    /\ grantCount["Apple"] = 2
    /\ result.reward = self.movement_reward + Hundredths(5)

\* C2: PickUpTask and PickUpAndFindReceptacleTask: the done flag a call returns
\* is True exactly when max_episode_length is set and non-zero and step_num >=
\* max_episode_length, whatever the inventories, the action and the bonuses.
C2_DoneIffBudget ==
    (variant \in PickUpVariants /\ Returned) => (result.done <=> BudgetReached)

\* C2 witness: done returned together with a pickup bonus in the same step
C2_Witness ==
    /\ variant = "PickUpAndFindReceptacleTask" /\ Returned
    /\ result.done /\ PickupEdge /\ result.reward > self.movement_reward

\* C3: PickUpAndFindReceptacleTask: a put-down edge adds the target_receptacles
\* reward of lastObjectPutReceptacle's type, 0 when that type is not listed or
\* lastObjectPutReceptacle is absent, and the call returns and records the
\* inventory. (Stated for calls whose action is neither OpenObject nor
\* CloseObject, so that no other bonus takes part.)
C3_PutDownReward ==
    (/\ variant = "PickUpAndFindReceptacleTask" /\ op = "evaluate"
     /\ call.action_str = "MoveAhead" /\ PutDownEdge) =>
        /\ result.raised = ""
        /\ self.prev_inventory = call.state.inventoryObjects
        /\ result.reward = self.movement_reward +
             (IF call.state.lastObjectPutReceptacle = None THEN 0
              ELSE Get(self.target_receptacles,
                       call.state.lastObjectPutReceptacle[1].objectType, 0))

\* C4: PickUpAndFindReceptacleTask: OpenObject with lastObjectOpened present
\* adds target_receptacles_need_open of the opened type, CloseObject with
\* lastObjectClosed present adds the negation of target_receptacles_need_open of
\* the closed type, whatever lastObjectOpened is. (Stated for calls with both
\* inventories empty, so that no pickup or put-down bonus takes part.)
C4_OpenCloseSymmetric ==
    (/\ variant = "PickUpAndFindReceptacleTask" /\ op = "evaluate"
     /\ call.prevInventory = <<>> /\ call.state.inventoryObjects = <<>>) =>
        /\ result.raised = ""
        /\ result.reward = self.movement_reward +
             (IF call.action_str = "OpenObject" /\ call.state.lastObjectOpened # None
              THEN Get(self.target_receptacles_need_open,
                       call.state.lastObjectOpened[1].objectType, 0)
              ELSE IF call.action_str = "CloseObject" /\ call.state.lastObjectClosed # None
              THEN 0 - Get(self.target_receptacles_need_open,
                           call.state.lastObjectClosed[1].objectType, 0)
              ELSE 0)

\* C5: ExploreAllObjects: between resets discoverd never shrinks, holds only
\* names that were visible, and every target that has been visible has had its
\* reward added to exactly one returned reward (the one of the step in which it
\* was first visible).
C5_DiscoveredOnce ==
    (variant = "ExploreAllObjects" /\ pc = "ready") =>
        /\ self.discoverd \subseteq seenVisible
        /\ op = "evaluate" => call.pre.discoverd \subseteq self.discoverd
        /\ \A n \in DOMAIN self.target_objects :
              grantCount[n] = IF n \in seenVisible THEN 1 ELSE 0

\* the reward ExploreAllObjects owes for the last call, given the bonus rule
ExploreReward(bonusDue) ==
    self.movement_reward
      + SumOver(self.target_objects, self.discoverd \ call.pre.discoverd)
      + (IF bonusDue THEN Hundredths(CompletionBonus) ELSE 0)

\* all targets found, after the last call's discoveries
AllFound == Cardinality(self.discoverd) = Cardinality(DOMAIN self.target_objects)

\* C6 as stated: done iff the budget is reached or all targets are found, and
\* the bonus is added in every step in which all targets are found, the step
\* that reaches the budget included.
C6_BonusWheneverAllFound ==
    (variant = "ExploreAllObjects" /\ Returned) =>
        /\ result.done <=> (BudgetReached \/ AllFound)
        /\ result.reward = ExploreReward(AllFound)

\* C6 amended: done iff the budget is reached or all targets are found, and the
\* bonus is added in every step in which all targets are found and the budget
\* is not reached; a step that reaches the budget earns no bonus.
C6_BonusUnlessBudgetReached ==
    (variant = "ExploreAllObjects" /\ Returned) =>
        /\ result.done <=> (BudgetReached \/ AllFound)
        /\ result.reward = ExploreReward(AllFound /\ ~BudgetReached)

\* C6 witness: the last target is discovered below the budget: its reward and
\* the bonus are added and done is returned
C6_Witness ==
    /\ variant = "ExploreAllObjects" /\ Returned /\ result.done
    /\ ~BudgetReached /\ AllFound
    /\ Cardinality(DOMAIN self.target_objects) = 2
    /\ Cardinality(call.pre.discoverd) = 1
    /\ result.reward > self.movement_reward + Hundredths(CompletionBonus)

\* C7: after reset() the instance answers every call as an instance freshly
\* built from the same kwargs does, whatever came before the reset; reset
\* leaves prev_inventory empty, discoverd empty and step_num 0 (so a second
\* reset changes nothing).
C7_ResetLikeFresh ==
    /\ (tracking /\ op = "evaluate") => result = freshResult
    /\ op = "reset" =>
          /\ self.step_num = 0
          /\ "prev_inventory" \in DOMAIN self => self.prev_inventory = <<>>
          /\ "discoverd" \in DOMAIN self => self.discoverd = {}
          /\ self = fresh

\* C7 witness: a call after a reset earns the pickup reward, as it does on the
\* freshly built instance
C7_Witness ==
    /\ tracking /\ Returned /\ variant \in PickUpVariants
    /\ PickupEdge /\ grantCount["Apple"] = 1
    /\ result.reward = self.movement_reward + Hundredths(5)
    /\ result = freshResult

\* the keys of target_objects are all pickupable
AllTargetsPickupable ==
    \A k \in DOMAIN kwargs.task.target_objects : k \in kwargs.pickup_objects

\* C8: __init__ of PickUpTask / PickUpAndFindReceptacleTask raises
\* InvalidTaskParams exactly when some key of target_objects is not in
\* pickup_objects; otherwise (an empty target_objects included) it succeeds with
\* prev_inventory empty and step_num 0; ExploreAllObjects never fails.
C8_InvalidTaskParams ==
    op = "init" =>
        /\ variant = "ExploreAllObjects" => pc = "ready"
        /\ (variant \in PickUpVariants /\ "target_objects" \in DOMAIN kwargs.task) =>
              /\ (result.raised = "InvalidTaskParams") <=> ~AllTargetsPickupable
              /\ AllTargetsPickupable =>
                    /\ pc = "ready"
                    /\ self.prev_inventory = <<>>
                    /\ self.step_num = 0
        /\ result.raised = "InvalidTaskParams" =>
              /\ variant \in PickUpVariants
              /\ "target_objects" \in DOMAIN kwargs.task
              /\ ~AllTargetsPickupable

\* C8 witness: construction refused because Mug is a target but not pickupable
C8_Witness ==
    /\ op = "init" /\ pc = "failed" /\ result.raised = "InvalidTaskParams"
    /\ "Mug" \in DOMAIN kwargs.task.target_objects
    /\ "Mug" \notin kwargs.pickup_objects

\* C9: a call either returns with the runtime state updated or raises and
\* leaves the attributes as they were before the call.
C9_Atomic ==
    op = "evaluate" =>
        /\ (result.raised # "") => self = call.pre
        /\ (result.raised = "" /\ "prev_inventory" \in DOMAIN self) =>
              self.prev_inventory = call.state.inventoryObjects

\* C10: once a call has returned done = True, every later call that returns
\* before a reset returns done = True.
C10_DoneIsFinal ==
    (Returned /\ call.doneBefore) => result.done

\* C10 witness: done returned again, steps after it was first returned
C10_Witness ==
    /\ Returned /\ call.doneBefore /\ result.done
    /\ self.max_episode_length # None
    /\ self.step_num > self.max_episode_length[1]
    /\ self.max_episode_length[1] > 0

====
